---- MODULE Spec2Model ----
(***************************************************************************)
(* Model of the LearnLab Orchestrator (backend/core/orchestrator.py): the  *)
(* router, the per-route planner / toolcall / synthesis stages, the linear *)
(* and graph execution strategies of run(), and the SSE generator stream().*)
(*                                                                         *)
(* Conventions.  A text is a sequence of one-character strings, so that    *)
(* len(text) is Len.  A missing / None / empty argument is "" ("a.get(x)   *)
(* or default" treats them alike) and a missing k is 0.  A message is the  *)
(* set of heuristic terms occurring in its lower-cased text.               *)
(***************************************************************************)
EXTENDS Integers, Sequences, FiniteSets, TLC

\* ---------------------------------------------------------------- bounds
MaxPlanLen == 2
MaxDocs == 2

\* ------------------------------------------------------ program constants
DefaultK == 4

\* ------------------------------------------------------------- utilities
Last(s) == s[Len(s)]

IsPrefix(s, t) == Len(s) <= Len(t) /\ SubSeq(t, 1, Len(s)) = s

RECURSIVE SeqsUpTo(_, _)
SeqsUpTo(S, n) ==
    IF n = 0 THEN {<<>>}
    ELSE LET shorter == SeqsUpTo(S, n - 1)
         IN  shorter \cup {Append(s, x) : s \in {t \in shorter : Len(t) = n - 1}, x \in S}

\* ------------------------------------------------------------ data model
\* Step(name=..., detail=..., output=...).model_dump()
Step(name, detail, output) == [name |-> name, detail |-> detail, output |-> output]

NoOutput == [tag |-> "none", n |-> 0]
CountOutput(n) == [tag |-> "count", n |-> n]
OkOutput(b) == [tag |-> "ok", n |-> IF b THEN 1 ELSE 0]
LenOutput(n) == [tag |-> "len", n |-> n]
PlanOutput(plan) == [tag |-> "plan", n |-> Len(plan)]
ErrorOutput == [tag |-> "error", n |-> 0]

\* PlanAction: type plus the args the toolcall stages read
Action(type, url, urls, action, data, k) ==
    [type |-> type, url |-> url, urls |-> urls, action |-> action, data |-> data, k |-> k]

\* PlanAction.validate_type
AllowedTypes == {"retrieval", "web_fetch", "n8n"}

validate_type_AcceptAll(v) == TRUE

validate_type(v) == v \in AllowedTypes

\* Plan.model_validate / Plan.model_validate_json on a parsed action list
PlanValid(actions) == \A i \in 1..Len(actions) : validate_type(actions[i].type)

\* ToolRegistry: names registered at import time, plus what a caller may register
BuiltinTools == {"retrieval", "web_fetch", "n8n"}

RegistryGet(reg, name) == name \in reg

\* AgentState(**payload).model_dump()
InitialState(p) ==
    [ preferred_agent |-> p.preferred_agent,
      message   |-> p.message,
      k         |-> p.k,
      route     |-> "",
      hasPlan   |-> FALSE,
      plan      |-> <<>>,
      artifacts |-> <<>>,
      steps     |-> <<>>,
      citations |-> <<>>,
      actions   |-> <<>>,
      result    |-> <<>>,
      hasResult |-> FALSE,
      errors    |-> <<>> ]

\* artifacts.get(key, []) and artifacts.setdefault(key, []).extend(xs)
ArtGet(art, key) == IF key \in DOMAIN art THEN art[key] ELSE <<>>

ArtExtend(art, key, xs) ==
    [x \in (DOMAIN art) \cup {key} |-> IF x = key THEN ArtGet(art, key) \o xs ELSE art[x]]

ArtSet(art, key, xs) ==
    [x \in (DOMAIN art) \cup {key} |-> IF x = key THEN xs ELSE art[x]]

\* ----------------------------------------------------------------- router
KnowledgeTerms == {"what is", "explain", "docs", "documentation", "how do", "how to", "agent", "rag"}
AutomationTerms == {"run", "execute", "trigger", "schedule", "deploy", "start job", "automate"}
IntegrationTerms == {"n8n", "webhook", "integrate", "api call", "send to"}
Routes == {"knowledge", "automation", "integration", "fallback"}
PreferredRoutes == {"knowledge", "automation", "integration"}

\* the heuristics of _route (lines 78-86)
Heuristic_AutomationFirst(msg) ==
    IF msg \cap AutomationTerms # {} THEN "automation"
    ELSE IF msg \cap KnowledgeTerms # {} THEN "knowledge"
    ELSE IF msg \cap IntegrationTerms # {} THEN "integration"
    ELSE "fallback"

Heuristic(msg) ==
    IF msg \cap KnowledgeTerms # {} THEN "knowledge"
    ELSE IF msg \cap AutomationTerms # {} THEN "automation"
    ELSE IF msg \cap IntegrationTerms # {} THEN "integration"
    ELSE "fallback"

\* llm is what the classification call produces: "raise" (the call or the
\* parse raised, e.g. run_until_complete inside a running loop), or the
\* lower-cased intent string of a parsed response.
route_HeuristicFirst(s, useLLM, llm) ==
    IF s.message \cap (KnowledgeTerms \cup AutomationTerms \cup IntegrationTerms) # {}
    THEN Heuristic(s.message)
    ELSE IF s.preferred_agent \in PreferredRoutes THEN s.preferred_agent ELSE "fallback"

route(s, useLLM, llm) ==
    IF s.preferred_agent \in PreferredRoutes THEN s.preferred_agent
    ELSE IF useLLM /\ llm # "raise" /\ llm \in Routes THEN llm
    ELSE Heuristic(s.message)

RouteDetail(r) ==
    CASE r = "knowledge"   -> "route=knowledge"
      [] r = "automation"  -> "route=automation"
      [] r = "integration" -> "route=integration"
      [] OTHER             -> "route=fallback"

\* ------------------------------------------------------- stage results
\* A stage either returns the state or raises; in both cases the in-place
\* mutations it made to the state dict are visible to run()/stream().
\* inst: tool classes instantiated (tool_cls()); calls: tool.run invocations.
\* llm: the responses of the llm.generate calls made.
Ctx(s) == [st |-> s, inst |-> <<>>, calls |-> <<>>, llm |-> <<>>]

Ok(c) == [st |-> c.st, inst |-> c.inst, calls |-> c.calls, llm |-> c.llm, exc |-> ""]

Raise(c, e) == [st |-> c.st, inst |-> c.inst, calls |-> c.calls, llm |-> c.llm, exc |-> e]

AddLLM(c, resp) == [c EXCEPT !.llm = Append(c.llm, resp)]

AddStep_Replace(c, step) == [c EXCEPT !.st.steps = <<step>>]

AddStep(c, step) == [c EXCEPT !.st.steps = c.st.steps \o <<step>>]

AddInst(c, type) == [c EXCEPT !.inst = Append(c.inst, type)]

\* the invocation log with the newest call first
AddCall_Prepend(c, tool, arg, data, k) ==
    [c EXCEPT !.calls = <<[tool |-> tool, arg |-> arg, data |-> data, k |-> k]>> \o c.calls]

AddCall(c, tool, arg, data, k) ==
    [c EXCEPT !.calls = Append(c.calls, [tool |-> tool, arg |-> arg, data |-> data, k |-> k])]

\* _router_node
router_node(s, useLLM, llm) ==
    LET r == route(s, useLLM, llm)
        c == Ctx([s EXCEPT !.route = r,
                           !.steps = s.steps \o <<Step("router", RouteDetail(r), NoOutput)>>])
    IN  Ok(IF useLLM /\ s.preferred_agent \notin PreferredRoutes THEN AddLLM(c, llm) ELSE c)

\* ------------------------------------------------------------- LLM shapes
\* What llm.generate(prompt) produces for a plan prompt:
\*   raise      the call itself raises
\*   nochoices  {"choices": []}: choices[0] raises IndexError
\*   error      {"error": ...}: text is ""
\*   nonjson    text that is not JSON
\*   schema     JSON that is not a Plan (no "actions" list)
\*   json       JSON {"actions": [...]}, types not yet validated
PlanRaw(kind, actions) == [kind |-> kind, actions |-> actions]

\* What llm.generate(prompt) produces for an answer / report prompt
SynthKinds == {"raise", "nochoices", "error", "text"}

\* choices[0].text of a well-formed synthesis response
AnswerText == <<"o", "k">>

\* how a plan response is recorded: its kind, JSON naming a type outside the
\* allow-list set apart
PlanKind(res) ==
    IF res.kind = "json" /\ \E i \in 1..Len(res.actions) : res.actions[i].type \notin AllowedTypes
    THEN "json_badtype" ELSE res.kind

\* ---------------------------------------------------------------- planners
KnowledgeFallback_DefaultK(s) == <<Action("retrieval", "", <<>>, "", "", DefaultK)>>

KnowledgeFallback(s) == <<Action("retrieval", "", <<>>, "", "", s.k)>>
AutomationFallback == <<Action("n8n", "", <<>>, "noop", "", 0)>>
IntegrationFallback == <<Action("web_fetch", "https://example.com", <<>>, "", "", 0)>>

\* the shared body of _knowledge_plan, _automation_plan, _integration_plan
PlanStage(s, res, stepName, fallback) ==
    LET c == AddLLM(Ctx(s), PlanKind(res)) IN
    IF res.kind = "raise" THEN Raise(c, "LLMError")
    ELSE IF res.kind = "nochoices" THEN Raise(c, "IndexError")
    ELSE IF res.kind = "json" /\ PlanValid(res.actions)
    THEN Ok([c EXCEPT !.st.plan = res.actions, !.st.hasPlan = TRUE,
                      !.st.steps = s.steps \o <<Step(stepName, "validated", PlanOutput(res.actions))>>])
    ELSE Ok([c EXCEPT !.st.plan = fallback, !.st.hasPlan = TRUE,
                      !.st.steps = s.steps \o <<Step(stepName, "invalid", ErrorOutput)>>])

knowledge_plan(s, res) == PlanStage(s, res, "plan", KnowledgeFallback(s))

automation_plan(s, res) == PlanStage(s, res, "automation_plan", AutomationFallback)

integration_plan(s, res) == PlanStage(s, res, "integration_plan", IntegrationFallback)

\* ------------------------------------------------------------ tool results
Doc(j) == [text |-> <<"d">>, n |-> j, source |-> IF j % 2 = 1 THEN "src" ELSE "", id |-> ""]

Docs(n) == [j \in 1..n |-> Doc(j)]

PageText == <<"p">>

FetchRecord(u, text) == [url |-> u, text |-> text]

FetchOutcomes == {"ok", "error", "raise"}
N8nOutcomes == {"ok", "error", "raise"}

N8nOutput(o, action) ==
    IF o = "ok" THEN [error |-> "", action |-> action, raised |-> FALSE]
    ELSE IF o = "error" THEN [error |-> "failed", action |-> action, raised |-> FALSE]
    ELSE [error |-> "boom", action |-> action, raised |-> TRUE]

ActionRecord(action, out) == [tool |-> "n8n", action |-> action, output |-> out]

UnknownDetail(type) ==
    CASE type = "retrieval" -> "unknown:retrieval"
      [] type = "web_fetch" -> "unknown:web_fetch"
      [] type = "n8n"       -> "unknown:n8n"
      [] OTHER              -> "unknown:other"

\* "if not tool_cls": note the unknown type and continue with the next action
OnUnknown_Silent(c, a) == c

OnUnknown(c, a) == AddStep(c, Step("toolcall", UnknownDetail(a.type), NoOutput))

\* the plan a toolcall stage iterates: Plan.model_validate(state.plan), else the fallback
Revalidate(s, fallback) == IF s.hasPlan /\ PlanValid(s.plan) THEN s.plan ELSE fallback

\* a.get("action") or "noop";  a.get("data") or {"message": state.message}
\* the action argument passed on as the plan gives it
N8nAction_Raw(a) == a.action

N8nAction(a) == IF a.action = "" THEN "noop" ELSE a.action
N8nData(a) == IF a.data = "" THEN "message" ELSE a.data

\* ------------------------------------------------- knowledge toolcall stage
\* the n8n branch run as the automation route runs it
KnowledgeN8n_Runs(c, a) ==
    LET c1 == AddCall(c, "n8n", N8nAction(a), N8nData(a), 0) IN
    AddStep([c1 EXCEPT !.st.actions = Append(c1.st.actions, ActionRecord(N8nAction(a), N8nOutput("ok", N8nAction(a))))],
            Step("toolcall", "n8n", OkOutput(TRUE)))

\* the n8n branch of _knowledge_toolcall (lines 298-300): a note, no tool.run
KnowledgeN8n(c, a) == AddStep(c, Step("toolcall", "n8n (skipped in knowledge path)", NoOutput))

\* the inner "for u in urls" of the web_fetch branch (lines 293-296)
RECURSIVE KFetchLoop(_, _, _, _)
KFetchLoop(c, urls, j, results) ==
    IF j > Len(urls) THEN {[c |-> c, results |-> results, exc |-> ""]}
    ELSE LET c1 == AddCall(c, "web_fetch", urls[j], "", 0)
         IN  {[c |-> c1, results |-> results, exc |-> "FetchError"]}
             \cup KFetchLoop(c1, urls, j + 1, Append(results, FetchRecord(urls[j], PageText)))
             \cup KFetchLoop(c1, urls, j + 1, results)

RECURSIVE KToolLoop(_, _, _, _)
KToolLoop(c, plan, i, reg) ==
    IF i > Len(plan) THEN {Ok(c)}
    ELSE LET a == plan[i] IN
      IF ~RegistryGet(reg, a.type)
      THEN KToolLoop(OnUnknown(c, a), plan, i + 1, reg)
      ELSE LET c0 == AddInst(c, a.type) IN
        IF a.type = "retrieval" THEN
          LET k  == IF a.k = 0 THEN c.st.k ELSE a.k
              c1 == AddCall(c0, "retrieval", "", "", k)
          IN  {Raise(c1, "RetrievalError")}
              \cup UNION { KToolLoop(
                     AddStep([c1 EXCEPT !.st.artifacts = ArtExtend(c1.st.artifacts, "docs", Docs(n))],
                             Step("toolcall", "retrieval", CountOutput(n))),
                     plan, i + 1, reg) : n \in 0..MaxDocs }
        ELSE IF a.type = "web_fetch" THEN
          LET urls == IF a.urls # <<>> THEN a.urls ELSE IF a.url # "" THEN <<a.url>> ELSE <<>>
          IN  UNION { IF f.exc # "" THEN {Raise(f.c, f.exc)}
                      ELSE KToolLoop(
                             AddStep([f.c EXCEPT !.st.artifacts = ArtExtend(f.c.st.artifacts, "web_fetch", f.results)],
                                     Step("toolcall", "web_fetch", CountOutput(Len(f.results)))),
                             plan, i + 1, reg)
                      : f \in KFetchLoop(c0, urls, 1, <<>>) }
        ELSE IF a.type = "n8n" THEN
          KToolLoop(KnowledgeN8n(c0, a), plan, i + 1, reg)
        ELSE KToolLoop(c0, plan, i + 1, reg)

knowledge_toolcall(s, reg) == KToolLoop(Ctx(s), Revalidate(s, KnowledgeFallback(s)), 1, reg)

\* ------------------------------------------------ automation toolcall stage
RECURSIVE AToolLoop(_, _, _, _)
AToolLoop(c, plan, i, reg) ==
    IF i > Len(plan) THEN {Ok(c)}
    ELSE LET a == plan[i] IN
      IF ~RegistryGet(reg, a.type)
      THEN AToolLoop(OnUnknown(c, a), plan, i + 1, reg)
      ELSE LET c0 == AddInst(c, a.type) IN
        IF a.type = "n8n" THEN
          LET action == N8nAction(a)
              c1 == AddCall(c0, "n8n", action, N8nData(a), 0)
          IN  UNION { AToolLoop(
                        AddStep([c1 EXCEPT !.st.actions = Append(c1.st.actions, ActionRecord(action, N8nOutput(o, action)))],
                                Step("toolcall", "n8n", OkOutput(o = "ok"))),
                        plan, i + 1, reg) : o \in N8nOutcomes }
        ELSE IF a.type = "web_fetch" THEN
          IF a.url # "" THEN
            LET c1 == AddCall(c0, "web_fetch", a.url, "", 0)
            IN  {Raise(c1, "FetchError")}
                \cup UNION { AToolLoop(
                       AddStep([c1 EXCEPT !.st.artifacts = ArtExtend(c1.st.artifacts, "web_fetch",
                                              <<FetchRecord(a.url, IF o = "ok" THEN PageText ELSE <<>>)>>)],
                               Step("toolcall", "web_fetch", OkOutput(o = "ok"))),
                       plan, i + 1, reg) : o \in {"ok", "error"} }
          ELSE AToolLoop(c0, plan, i + 1, reg)
        ELSE AToolLoop(c0, plan, i + 1, reg)

automation_toolcall(s, reg) == AToolLoop(Ctx(s), Revalidate(s, AutomationFallback), 1, reg)

\* ----------------------------------------------- integration toolcall stage
RECURSIVE IToolLoop(_, _, _, _)
IToolLoop(c, plan, i, reg) ==
    IF i > Len(plan) THEN {Ok(c)}
    ELSE LET a == plan[i] IN
      IF ~RegistryGet(reg, a.type)
      THEN IToolLoop(OnUnknown(c, a), plan, i + 1, reg)
      ELSE LET c0 == AddInst(c, a.type) IN
        IF a.type = "web_fetch" THEN
          IF a.url # "" THEN
            LET c1 == AddCall(c0, "web_fetch", a.url, "", 0)
            IN  {Raise(c1, "FetchError")}
                \cup IToolLoop(
                       AddStep([c1 EXCEPT !.st.artifacts = ArtExtend(c1.st.artifacts, "web_fetch",
                                              <<FetchRecord(a.url, PageText)>>)],
                               Step("toolcall", "web_fetch", OkOutput(TRUE))),
                       plan, i + 1, reg)
                \cup IToolLoop(AddStep(c1, Step("toolcall", "web_fetch", OkOutput(FALSE))), plan, i + 1, reg)
          ELSE IToolLoop(AddStep(c0, Step("toolcall", "web_fetch", OkOutput(FALSE))), plan, i + 1, reg)
        ELSE IF a.type = "n8n" THEN
          LET action == N8nAction(a)
              c1 == AddCall(c0, "n8n", action, N8nData(a), 0)
          IN  UNION { IToolLoop(
                        AddStep([c1 EXCEPT !.st.actions = Append(c1.st.actions, ActionRecord(action, N8nOutput(o, action)))],
                                Step("toolcall", "n8n", OkOutput(o = "ok"))),
                        plan, i + 1, reg) : o \in N8nOutcomes }
        ELSE IToolLoop(c0, plan, i + 1, reg)

integration_toolcall(s, reg) == IToolLoop(Ctx(s), Revalidate(s, IntegrationFallback), 1, reg)

\* ------------------------------------------------------ simple-mode stages
KDetail(k) == CASE k = 4 -> "k=4" [] k = 2 -> "k=2" [] OTHER -> "k=?"

DocName(i) == CASE i = 1 -> "doc_1" [] i = 2 -> "doc_2" [] i = 3 -> "doc_3" [] OTHER -> "doc_n"

\* m.get("source") or m.get("id") or f"doc_{i+1}"
Citation(d, i) ==
    [source |-> IF d.source # "" THEN d.source ELSE IF d.id # "" THEN d.id ELSE DocName(i),
     metadata |-> [source |-> d.source, id |-> d.id, n |-> d.n]]

\* _knowledge_retrieve; out says whether self.retrieval.run raises, else how many docs it returns
knowledge_retrieve(s, out) ==
    LET c == AddCall(Ctx(s), "retrieval", "", "", s.k) IN
    IF out.raise THEN Raise(c, "RetrievalError")
    ELSE LET docs == Docs(out.n) IN
         Ok([c EXCEPT !.st.artifacts = ArtSet(s.artifacts, "docs", docs),
                      !.st.citations = [i \in 1..Len(docs) |-> Citation(docs[i], i)],
                      !.st.steps = s.steps \o <<Step("retrieve", KDetail(s.k), CountOutput(Len(docs)))>>])

RetrieveOutcomes == {[raise |-> TRUE, n |-> 0]} \cup {[raise |-> FALSE, n |-> n] : n \in 0..MaxDocs}

\* f.get("text") or f.get("body") or "": the records the toolcall stages
\* write carry no body, so the page text is the text field
PageTextOf(f) == f.text

\* the numbered snippets _knowledge_answer and _knowledge_answer_stream put
\* into the prompt (lines 153-162, 196-205); enumerate() counts from 0, so
\* snippet j of fetched, counted from 1, is numbered base + j
BuildContext(art) ==
    LET docs    == ArtGet(art, "docs")
        fetched == ArtGet(art, "web_fetch")
        docCtx  == [i \in 1..Len(docs) |-> [num |-> i, text |-> docs[i].text]]
        base    == Len(docCtx)
        pages   == [j \in 1..Len(fetched) |-> [num |-> base + j, text |-> PageTextOf(fetched[j])]]
    IN  docCtx \o SelectSeq(pages, LAMBDA x : x.text # <<>>)

\* the text a synthesis stage reads from llm.generate's result
SynthText(kind) == IF kind = "text" THEN AnswerText ELSE <<>>

\* the synthesis Step appended, the text not stored as result
SynthStage_NoResult(s, kind, stepName) ==
    LET c == AddLLM(Ctx(s), kind) IN
    IF kind = "raise" THEN Raise(c, "LLMError")
    ELSE IF kind = "nochoices" THEN Raise(c, "IndexError")
    ELSE Ok([c EXCEPT !.st.steps = s.steps \o
                 <<Step(stepName, "llm.generate", LenOutput(Len(SynthText(kind))))>>])

\* the shared tail of _knowledge_answer, _automation_report, _integration_report
SynthStage(s, kind, stepName) ==
    LET c == AddLLM(Ctx(s), kind) IN
    IF kind = "raise" THEN Raise(c, "LLMError")
    ELSE IF kind = "nochoices" THEN Raise(c, "IndexError")
    ELSE LET text == SynthText(kind) IN
         Ok([c EXCEPT !.st.result = text, !.st.hasResult = TRUE,
                      !.st.steps = s.steps \o <<Step(stepName, "llm.generate", LenOutput(Len(text)))>>])

knowledge_answer(s, kind) == SynthStage(s, kind, "answer")

automation_report(s, kind) == SynthStage(s, kind, "automation_report")

integration_report(s, kind) == SynthStage(s, kind, "integration_report")

ExecutedText(n) == <<"Executed", IF n = 0 THEN "0" ELSE "1", "automation actions.">>

\* _automation_node; o is the outcome of the n8n tool's run
automation_node(s, reg, o) ==
    IF ~RegistryGet(reg, "n8n")
    THEN Ok(Ctx([s EXCEPT !.result = ExecutedText(0), !.hasResult = TRUE, !.actions = <<>>]))
    ELSE LET c   == AddCall(AddInst(Ctx(s), "n8n"), "n8n", "default", "message", 0)
             rec == [tool |-> "n8n", action |-> "", output |-> N8nOutput(o, "")]
         IN  Ok([c EXCEPT !.st.result = ExecutedText(1), !.st.hasResult = TRUE,
                          !.st.actions = <<rec>>,
                          !.st.steps = s.steps \o
                              <<IF o = "raise" THEN Step("automation", "error", ErrorOutput)
                                ELSE Step("automation", "executed", OkOutput(TRUE))>>])

\* _integration_node
integration_node(s) ==
    Ok(Ctx([s EXCEPT !.result = <<"Integration placeholder executed.">>, !.hasResult = TRUE,
                     !.steps = s.steps \o <<Step("integration", "placeholder", NoOutput)>>]))

\* _fallback_node
fallback_node(s) ==
    Ok(Ctx([s EXCEPT !.result = <<"I'm not sure which agent to use.">>, !.hasResult = TRUE,
                     !.steps = s.steps \o <<Step("fallback", "no-route", NoOutput)>>]))

\* ------------------------------------------------------ execution strategies
END == "__END__"

\* run(), linear branch (lines 528-554): the stage called after fn returns
LinearNext_SkipToolcall(fn, r, adv) ==
    CASE fn = "router_node" ->
           IF r = "knowledge" THEN (IF adv THEN "knowledge_plan" ELSE "knowledge_retrieve")
           ELSE IF r = "automation" THEN (IF adv THEN "automation_plan" ELSE "automation_node")
           ELSE IF r = "integration" THEN (IF adv THEN "integration_plan" ELSE "integration_node")
           ELSE "fallback_node"
      [] fn = "knowledge_plan"       -> "knowledge_toolcall"
      [] fn = "knowledge_toolcall"   -> "knowledge_answer"
      [] fn = "knowledge_retrieve"   -> "knowledge_answer"
      [] fn = "automation_plan"      -> "automation_report"
      [] fn = "integration_plan"     -> "integration_report"
      [] OTHER -> END

LinearNext(fn, r, adv) ==
    CASE fn = "router_node" ->
           IF r = "knowledge" THEN (IF adv THEN "knowledge_plan" ELSE "knowledge_retrieve")
           ELSE IF r = "automation" THEN (IF adv THEN "automation_plan" ELSE "automation_node")
           ELSE IF r = "integration" THEN (IF adv THEN "integration_plan" ELSE "integration_node")
           ELSE "fallback_node"
      [] fn = "knowledge_plan"       -> "knowledge_toolcall"
      [] fn = "knowledge_toolcall"   -> "knowledge_answer"
      [] fn = "knowledge_retrieve"   -> "knowledge_answer"
      [] fn = "automation_plan"      -> "automation_toolcall"
      [] fn = "automation_toolcall"  -> "automation_report"
      [] fn = "integration_plan"     -> "integration_toolcall"
      [] fn = "integration_toolcall" -> "integration_report"
      [] OTHER -> END

\* _build_graph: g.add_node(name, fn)
NodeFn(node) ==
    CASE node = "router"      -> "router_node"
      [] node = "automation"  -> "automation_node"
      [] node = "integration" -> "integration_node"
      [] node = "fallback"    -> "fallback_node"
      [] OTHER -> node

GraphNodes(adv) ==
    {"router", "fallback"} \cup
    (IF adv THEN {"knowledge_plan", "knowledge_toolcall", "knowledge_answer",
                  "automation_plan", "automation_toolcall", "automation_report",
                  "integration_plan", "integration_toolcall", "integration_report"}
     ELSE {"knowledge_retrieve", "knowledge_answer", "automation", "integration"})

\* decide_route (lines 490-498), the conditional edge out of "router"
decide_route(r, adv) ==
    IF r = "knowledge" THEN (IF adv THEN "knowledge_plan" ELSE "knowledge_retrieve")
    ELSE IF r = "automation" THEN (IF adv THEN "automation_plan" ELSE "automation")
    ELSE IF r = "integration" THEN (IF adv THEN "integration_plan" ELSE "integration")
    ELSE "fallback"

\* g.add_edge(a, b) (lines 502-519)
GraphEdges_SkipAnswer(adv) ==
    (IF adv THEN { <<"knowledge_plan", "knowledge_toolcall">>,
                   <<"knowledge_toolcall", END>>,
                   <<"knowledge_answer", END>>,
                   <<"automation_plan", "automation_toolcall">>,
                   <<"automation_toolcall", "automation_report">>,
                   <<"automation_report", END>>,
                   <<"integration_plan", "integration_toolcall">>,
                   <<"integration_toolcall", "integration_report">>,
                   <<"integration_report", END>> }
     ELSE { <<"knowledge_retrieve", "knowledge_answer">>,
            <<"knowledge_answer", END>>,
            <<"automation", END>>,
            <<"integration", END>> })
    \cup { <<"fallback", END>> }

GraphEdges(adv) ==
    (IF adv THEN { <<"knowledge_plan", "knowledge_toolcall">>,
                   <<"knowledge_toolcall", "knowledge_answer">>,
                   <<"knowledge_answer", END>>,
                   <<"automation_plan", "automation_toolcall">>,
                   <<"automation_toolcall", "automation_report">>,
                   <<"automation_report", END>>,
                   <<"integration_plan", "integration_toolcall">>,
                   <<"integration_toolcall", "integration_report">>,
                   <<"integration_report", END>> }
     ELSE { <<"knowledge_retrieve", "knowledge_answer">>,
            <<"knowledge_answer", END>>,
            <<"automation", END>>,
            <<"integration", END>> })
    \cup { <<"fallback", END>> }

\* the node the compiled graph runs after node, as a stage function name
GraphNext(fn, r, adv) ==
    IF fn = "router_node" THEN NodeFn(decide_route(r, adv))
    ELSE LET node == CHOOSE n \in GraphNodes(adv) : NodeFn(n) = fn
         IN  NodeFn(CHOOSE t \in GraphNodes(adv) \cup {END} : <<node, t>> \in GraphEdges(adv))

\* stream() (lines 568-618): the stage called after fn returns
StreamNext(fn, r, adv) ==
    CASE fn = "router_node" ->
           IF r = "knowledge" THEN (IF adv THEN "knowledge_plan" ELSE "knowledge_retrieve")
           ELSE IF r = "automation" THEN (IF adv THEN "automation_plan" ELSE "automation_node")
           ELSE IF r = "integration" THEN (IF adv THEN "integration_plan" ELSE "integration_node")
           ELSE "fallback_node"
      [] fn = "knowledge_plan"       -> "knowledge_toolcall"
      [] fn = "knowledge_toolcall"   -> "knowledge_answer_stream"
      [] fn = "knowledge_retrieve"   -> "knowledge_answer_stream"
      [] fn = "automation_plan"      -> "automation_toolcall"
      [] fn = "automation_toolcall"  -> "automation_report"
      [] fn = "integration_plan"     -> "integration_toolcall"
      [] fn = "integration_toolcall" -> "integration_report"
      [] OTHER -> END

\* ------------------------------------------------------------- SSE events
NoStep == Step("", "", NoOutput)

EvStep(step) == [kind |-> "step", step |-> step, text |-> <<>>]
EvToken(text) == [kind |-> "token", step |-> NoStep, text |-> text]
EvDone == [kind |-> "done", step |-> NoStep, text |-> <<>>]
EvError(e) == [kind |-> "error", step |-> NoStep, text |-> <<e>>]

\* the except clause of stream() (lines 619-622)
StreamExcept_NoDone(e) == <<EvError(e)>>

StreamExcept(e) == <<EvError(e), EvDone>>

\* the except clause of run() (lines 558-561)
RunExcept_Swallow(s, e) == s

RunExcept(s, e) == [s EXCEPT !.errors = Append(@, e)]

\* what stream() yields after stage fn returned state s (lines 569-617)
StreamYield_RouterSilent(fn, s) ==
    IF fn = "router_node" THEN <<>>
    ELSE IF fn \in {"automation_report", "automation_node", "integration_report",
                    "integration_node", "fallback_node"}
    THEN <<EvStep(Last(s.steps)), EvToken(s.result), EvDone>>
    ELSE <<EvStep(Last(s.steps))>>

StreamYield(fn, s) ==
    IF fn \in {"automation_report", "automation_node", "integration_report",
               "integration_node", "fallback_node"}
    THEN <<EvStep(Last(s.steps)), EvToken(s.result), EvDone>>
    ELSE <<EvStep(Last(s.steps))>>

\* chunks llm.generate_stream may yield
Chunks == {<<"a">>, <<"b", "c">>}
MaxChunks == 2

\* ----------------------------------------------------------- state machine
VARIABLES
    entry,      \* "run" or "stream": the entry point invoked
    strategy,   \* "graph" or "linear": whether self._graph was built
    advanced,   \* GRAPH_ADVANCED_FLOW == "1"
    useLLM,     \* ROUTER_USE_LLM == "1"
    registry,   \* ToolRegistry._registry's keys
    st,         \* the state dict threaded through the stages
    pc,         \* the stage function to call next, "start" or END
    trace,      \* stage functions called so far
    stagelog,   \* per stage called: the Steps it appended and how it ended
    events,     \* SSE frames yielded so far, each with the stage count at the time
    inst,       \* tool classes instantiated by toolcall stages
    calls,      \* tool.run invocations
    llmlog,     \* responses of the llm.generate calls made
    full_text,  \* _knowledge_answer_stream's accumulator
    returned,   \* "" while running, then "state" (returned / exhausted) or "raised"
    contexts,   \* the numbered snippets of the answer prompt built last
    runs,       \* concurrent invocations: each one's own state dict and position
    cache       \* LLMService.cache: results of llm.generate by prompt

vars == <<entry, strategy, advanced, useLLM, registry, st, pc, trace, stagelog,
          events, inst, calls, llmlog, full_text, returned, contexts, runs, cache>>

env == <<entry, strategy, advanced, useLLM, registry>>

Registries == (SUBSET BuiltinTools) \cup {BuiltinTools \cup {"shell"}}

Input(pref, msg, k, llm) == [preferred_agent |-> pref, message |-> msg, k |-> k, useLLM |-> llm]

\* the requests and router settings of the orchestrator runs explored
Inputs ==
    { Input("", {}, DefaultK, FALSE),
      Input("", {"explain"}, DefaultK, TRUE),
      Input("", {"deploy", "webhook"}, DefaultK, FALSE),
      Input("", {"webhook"}, DefaultK, TRUE),
      Input("tutor", {"run"}, DefaultK, FALSE),
      Input("knowledge", {"deploy"}, 2, FALSE),
      Input("automation", {"explain"}, DefaultK, TRUE),
      Input("integration", {}, DefaultK, FALSE) }

\* the actions an LLM plan may name
RawActions ==
    { Action("retrieval", "", <<>>, "", "", 0),
      Action("web_fetch", "u1", <<>>, "", "", 0),
      Action("web_fetch", "", <<>>, "", "", 0),
      Action("web_fetch", "", <<"u1", "u2">>, "", "", 0),
      Action("n8n", "", <<>>, "deploy", "d", 0),
      Action("n8n", "", <<>>, "", "", 0),
      Action("shell", "", <<>>, "", "", 0) }

PlanResponses ==
    { PlanRaw(kd, <<>>) : kd \in {"raise", "nochoices", "error", "nonjson", "schema"} }
    \cup { PlanRaw("json", as) : as \in SeqsUpTo(RawActions, MaxPlanLen) }

Init ==
    /\ entry \in {"run", "stream"}
    /\ strategy \in {"linear", "graph"}
    /\ (entry = "stream" => strategy = "linear")
    /\ advanced \in BOOLEAN
    /\ registry \in Registries
    /\ \E i \in Inputs : useLLM = i.useLLM /\ st = InitialState(i)
    /\ pc = "start"
    /\ trace = <<>>
    /\ stagelog = <<>>
    /\ events = <<>>
    /\ inst = <<>>
    /\ calls = <<>>
    /\ llmlog = <<>>
    /\ full_text = <<>>
    /\ returned = ""
    /\ contexts = <<>>
    /\ runs = <<>>
    /\ cache = {}

\* the stage called after fn under the strategy in force
NextPc(fn, s) ==
    IF entry = "stream" THEN StreamNext(fn, s.route, advanced)
    ELSE IF strategy = "graph" THEN GraphNext(fn, s.route, advanced)
    ELSE LinearNext(fn, s.route, advanced)

Tag(evs) == [i \in 1..Len(evs) |-> [ev |-> evs[i], at |-> Len(trace) + 1]]

\* control returns from stage fn with result r; late is an exception
\* raised by the caller's own statement around the call ("" if none)
Complete(fn, r, late) ==
    LET e == IF r.exc # "" THEN r.exc ELSE late IN
    /\ trace' = Append(trace, fn)
    /\ stagelog' = Append(stagelog,
          [fn |-> fn, exc |-> r.exc,
           appended |-> SubSeq(r.st.steps, Len(st.steps) + 1, Len(r.st.steps))])
    /\ inst' = inst \o r.inst
    /\ calls' = calls \o r.calls
    /\ llmlog' = llmlog \o r.llm
    /\ IF e # ""
       THEN /\ pc' = END
            /\ returned' = "state"
            /\ IF entry = "stream"
               THEN st' = r.st /\ events' = events \o Tag(StreamExcept(e))
               ELSE st' = RunExcept(r.st, e) /\ events' = events
       ELSE /\ st' = r.st
            /\ pc' = NextPc(fn, r.st)
            /\ returned' = IF NextPc(fn, r.st) = END THEN "state" ELSE ""
            /\ events' = IF entry = "stream" THEN events \o Tag(StreamYield(fn, r.st)) ELSE events
    /\ contexts' = IF fn = "knowledge_answer" THEN BuildContext(st.artifacts) ELSE contexts
    /\ UNCHANGED <<env, full_text, runs, cache>>

\* asyncio.get_event_loop().run_until_complete(...) inside run()/stream(),
\* which execute on the running loop, raises RuntimeError (line 68)
RouterNode ==
    /\ pc = "start"
    /\ Complete("router_node", router_node(st, useLLM, "raise"), "")

KnowledgePlan ==
    /\ pc = "knowledge_plan"
    /\ \E res \in PlanResponses : Complete("knowledge_plan", knowledge_plan(st, res), "")

KnowledgeToolcall ==
    /\ pc = "knowledge_toolcall"
    /\ \E r \in knowledge_toolcall(st, registry) : Complete("knowledge_toolcall", r, "")

KnowledgeRetrieve ==
    /\ pc = "knowledge_retrieve"
    /\ \E out \in RetrieveOutcomes : Complete("knowledge_retrieve", knowledge_retrieve(st, out), "")

KnowledgeAnswer ==
    /\ pc = "knowledge_answer"
    /\ \E kd \in SynthKinds : Complete("knowledge_answer", knowledge_answer(st, kd), "")

AutomationPlan ==
    /\ pc = "automation_plan"
    /\ \E res \in PlanResponses : Complete("automation_plan", automation_plan(st, res), "")

\* stream() awaits the dict the synchronous stage returns (line 587): TypeError
AutomationToolcall ==
    /\ pc = "automation_toolcall"
    /\ \E r \in automation_toolcall(st, registry) :
          Complete("automation_toolcall", r, IF entry = "stream" THEN "TypeError" ELSE "")

AutomationReport ==
    /\ pc = "automation_report"
    /\ \E kd \in SynthKinds : Complete("automation_report", automation_report(st, kd), "")

AutomationNode ==
    /\ pc = "automation_node"
    /\ \E o \in N8nOutcomes : Complete("automation_node", automation_node(st, registry, o), "")

IntegrationPlan ==
    /\ pc = "integration_plan"
    /\ \E res \in PlanResponses : Complete("integration_plan", integration_plan(st, res), "")

IntegrationToolcall ==
    /\ pc = "integration_toolcall"
    /\ \E r \in integration_toolcall(st, registry) : Complete("integration_toolcall", r, "")

IntegrationReport ==
    /\ pc = "integration_report"
    /\ \E kd \in SynthKinds : Complete("integration_report", integration_report(st, kd), "")

IntegrationNode ==
    /\ pc = "integration_node"
    /\ Complete("integration_node", integration_node(st), "")

FallbackNode ==
    /\ pc = "fallback_node"
    /\ Complete("fallback_node", fallback_node(st), "")

\* the chunk's event put ahead of the events already emitted
AnswerStreamToken_Prepend ==
    /\ pc = "knowledge_answer_stream"
    /\ Cardinality({i \in 1..Len(events) : events[i].ev.kind = "token"}) < MaxChunks
    /\ \E ch \in Chunks :
          /\ full_text' = full_text \o ch
          /\ events' = Tag(<<EvToken(ch)>>) \o events
    /\ contexts' = BuildContext(st.artifacts)
    /\ UNCHANGED <<env, st, pc, trace, stagelog, inst, calls, llmlog, returned, runs, cache>>

\* _knowledge_answer_stream: one iteration of "async for token" (lines 230-232)
AnswerStreamToken ==
    /\ pc = "knowledge_answer_stream"
    /\ Cardinality({i \in 1..Len(events) : events[i].ev.kind = "token"}) < MaxChunks
    /\ \E ch \in Chunks :
          /\ full_text' = full_text \o ch
          /\ events' = events \o Tag(<<EvToken(ch)>>)
    /\ contexts' = BuildContext(st.artifacts)
    /\ UNCHANGED <<env, st, pc, trace, stagelog, inst, calls, llmlog, returned, runs, cache>>

\* _knowledge_answer_stream: the LLM stream is exhausted (lines 235-237)
AnswerStreamEnd ==
    /\ pc = "knowledge_answer_stream"
    /\ LET step == Step("answer", "llm.generate_stream", LenOutput(Len(full_text))) IN
       /\ events' = events \o Tag(<<EvStep(step), EvDone>>)
       /\ stagelog' = Append(stagelog, [fn |-> "knowledge_answer_stream", exc |-> "", appended |-> <<step>>])
    /\ trace' = Append(trace, "knowledge_answer_stream")
    /\ pc' = END
    /\ returned' = "state"
    /\ contexts' = BuildContext(st.artifacts)
    /\ UNCHANGED <<env, st, inst, calls, llmlog, full_text, runs, cache>>

\* _knowledge_answer_stream: llm.generate_stream raises; stream() catches it
AnswerStreamRaise ==
    /\ pc = "knowledge_answer_stream"
    /\ events' = events \o Tag(StreamExcept("LLMError"))
    /\ stagelog' = Append(stagelog, [fn |-> "knowledge_answer_stream", exc |-> "LLMError", appended |-> <<>>])
    /\ trace' = Append(trace, "knowledge_answer_stream")
    /\ pc' = END
    /\ returned' = "state"
    /\ contexts' = BuildContext(st.artifacts)
    /\ UNCHANGED <<env, st, inst, calls, llmlog, full_text, runs, cache>>

Next ==
    \/ RouterNode
    \/ KnowledgePlan
    \/ KnowledgeToolcall
    \/ KnowledgeRetrieve
    \/ KnowledgeAnswer
    \/ AutomationPlan
    \/ AutomationToolcall
    \/ AutomationReport
    \/ AutomationNode
    \/ IntegrationPlan
    \/ IntegrationToolcall
    \/ IntegrationReport
    \/ IntegrationNode
    \/ FallbackNode
    \/ AnswerStreamToken
    \/ AnswerStreamEnd
    \/ AnswerStreamRaise

Spec == Init /\ [][Next]_vars

\* ------------------------------------------------- the router on its own
\* _router_node called synchronously (no loop running), so that the LLM
\* classification can return: "raise", a non-intent, or one of the intents.
RouterPreferred == {"", "knowledge", "automation", "integration", "tutor"}
RouterMessages == SUBSET {"explain", "deploy", "webhook", "hello"}
\* what the classification call hands to _route: the call raises, text that
\* is not JSON, a JSON object without "intent", an intent outside the four,
\* an intent in capitals, or one of the four intents
RouterResponses == Routes \cup {"raise", "nonjson", "missing", "other", "Knowledge"}

\* json.loads(text), str(data.get("intent", "fallback")).lower() (lines 72-73)
ParseIntent(resp) ==
    CASE resp \in {"raise", "nonjson"} -> "raise"
      [] resp = "missing"              -> "fallback"
      [] resp = "Knowledge"            -> "knowledge"
      [] OTHER                         -> resp

RouterInit ==
    /\ entry = "run"
    /\ strategy = "linear"
    /\ advanced = FALSE
    /\ registry = BuiltinTools
    /\ \E p \in RouterPreferred, m \in RouterMessages, u \in BOOLEAN :
          useLLM = u /\ st = InitialState(Input(p, m, DefaultK, u))
    /\ pc = "start"
    /\ trace = <<>>
    /\ stagelog = <<>>
    /\ events = <<>>
    /\ inst = <<>>
    /\ calls = <<>>
    /\ llmlog = <<>>
    /\ full_text = <<>>
    /\ returned = ""
    /\ contexts = <<>>
    /\ runs = <<>>
    /\ cache = {}

RouterCall ==
    /\ pc = "start"
    /\ \E resp \in RouterResponses :
          LET r == router_node(st, useLLM, ParseIntent(resp)) IN
          /\ st' = r.st
          /\ llmlog' = IF r.llm = <<>> THEN <<>> ELSE <<resp>>
          /\ stagelog' = <<[fn |-> "router_node", exc |-> r.exc,
                            appended |-> SubSeq(r.st.steps, Len(st.steps) + 1, Len(r.st.steps))]>>
    /\ trace' = <<"router_node">>
    /\ pc' = END
    /\ returned' = "state"
    /\ UNCHANGED <<env, events, inst, calls, full_text, contexts, runs, cache>>

RouterNext == RouterCall

RouterSpec == RouterInit /\ [][RouterNext]_vars

\* ------------------------------------- the answer stage on given artifacts
\* _knowledge_answer / _knowledge_answer_stream entered on a knowledge-route
\* state whose artifacts hold any docs and any fetched pages: artifacts is a
\* payload field, and a fetch answered 304 or with an empty body is stored
\* with text "" (lines 296, 357, 427).
MaxFetched == 3

ContextPages == {FetchRecord("u1", PageText), FetchRecord("u2", <<>>)}

ContextArtifacts ==
    { ArtSet(ArtSet(<<>>, "docs", Docs(n)), "web_fetch", f) :
        n \in 0..MaxDocs, f \in SeqsUpTo(ContextPages, MaxFetched) }

ContextInit ==
    /\ entry \in {"run", "stream"}
    /\ strategy = "linear"
    /\ advanced = TRUE
    /\ useLLM = FALSE
    /\ registry = BuiltinTools
    /\ \E art \in ContextArtifacts :
          st = [InitialState(Input("knowledge", {"explain"}, DefaultK, FALSE))
                  EXCEPT !.route = "knowledge",
                         !.artifacts = art,
                         !.steps = <<Step("router", RouteDetail("knowledge"), NoOutput)>>]
    /\ pc = IF entry = "stream" THEN "knowledge_answer_stream" ELSE "knowledge_answer"
    /\ trace = <<>>
    /\ stagelog = <<>>
    /\ events = <<>>
    /\ inst = <<>>
    /\ calls = <<>>
    /\ llmlog = <<>>
    /\ full_text = <<>>
    /\ returned = ""
    /\ contexts = <<>>
    /\ runs = <<>>
    /\ cache = {}

ContextNext ==
    \/ KnowledgeAnswer
    \/ AnswerStreamToken
    \/ AnswerStreamEnd
    \/ AnswerStreamRaise

ContextSpec == ContextInit /\ [][ContextNext]_vars

\* ------------------------------------ runs whose payload carries artifacts
\* run() builds the state with AgentState(**payload): the payload may hold
\* artifacts of an earlier turn (core/base.py line 26). Knowledge-route runs
\* in simple and advanced mode, started on such a payload.
PayloadDoc == [text |-> <<"d">>, n |-> 0, source |-> "payload", id |-> ""]

ArtifactPayloads ==
    { <<>>,
      ArtSet(<<>>, "docs", <<PayloadDoc>>),
      ArtSet(ArtSet(<<>>, "docs", <<PayloadDoc>>), "web_fetch", <<FetchRecord("u0", PageText)>>) }

ArtifactInit ==
    /\ entry = "run"
    /\ strategy = "linear"
    /\ advanced \in BOOLEAN
    /\ useLLM = FALSE
    /\ registry = BuiltinTools
    /\ \E art \in ArtifactPayloads :
          st = [InitialState(Input("knowledge", {"explain"}, DefaultK, FALSE)) EXCEPT !.artifacts = art]
    /\ pc = "start"
    /\ trace = <<>>
    /\ stagelog = <<>>
    /\ events = <<>>
    /\ inst = <<>>
    /\ calls = <<>>
    /\ llmlog = <<>>
    /\ full_text = <<>>
    /\ returned = ""
    /\ contexts = <<>>
    /\ runs = <<>>
    /\ cache = {}

ArtifactNext ==
    \/ RouterNode
    \/ KnowledgePlan
    \/ KnowledgeToolcall
    \/ KnowledgeRetrieve
    \/ KnowledgeAnswer

ArtifactSpec == ArtifactInit /\ [][ArtifactNext]_vars

\* ------------------------------------- the toolcall stages on given plans
\* An advanced run() that has routed and planned: the state holds the Steps
\* of the router and of the planner and a validated plan (any sequence of
\* allow-listed actions), and the route's toolcall stage is the next call.
ToolcallRoutes == {"knowledge", "automation", "integration"}

ToolcallPlans == SeqsUpTo({a \in RawActions : validate_type(a.type)}, MaxPlanLen)

ToolcallInit ==
    /\ entry = "run"
    /\ strategy = "linear"
    /\ advanced = TRUE
    /\ useLLM = FALSE
    /\ registry \in Registries
    /\ \E r \in ToolcallRoutes, plan \in ToolcallPlans :
          /\ st = [InitialState(Input(r, {}, DefaultK, FALSE))
                     EXCEPT !.route = r, !.hasPlan = TRUE, !.plan = plan,
                            !.steps = <<Step("router", RouteDetail(r), NoOutput),
                                        Step(IF r = "knowledge" THEN "plan"
                                             ELSE LinearNext("router_node", r, TRUE),
                                             "validated", PlanOutput(plan))>>]
          /\ pc = LinearNext(LinearNext("router_node", r, TRUE), r, TRUE)
    /\ trace = <<>>
    /\ stagelog = <<>>
    /\ events = <<>>
    /\ inst = <<>>
    /\ calls = <<>>
    /\ llmlog = <<>>
    /\ full_text = <<>>
    /\ returned = ""
    /\ contexts = <<>>
    /\ runs = <<>>
    /\ cache = {}

ToolcallNext ==
    \/ KnowledgeToolcall
    \/ AutomationToolcall
    \/ IntegrationToolcall

ToolcallSpec == ToolcallInit /\ [][ToolcallNext]_vars

\* ----------------------------------------- two interleaved invocations
\* Two run()/stream() coroutines on one Orchestrator, scheduled on one event
\* loop. Each holds its own `state` dict (lines 523, 564); they share the
\* instance's LLMService, whose cache is keyed by the prompt, and the
\* ToolRegistry. A coroutine gives up control only at an awaited
\* llm.generate / generate_stream; the synchronous stages run to completion.
LLMFns ==
    {"knowledge_plan", "automation_plan", "integration_plan", "knowledge_answer",
     "automation_report", "integration_report", "knowledge_answer_stream"}

\* the LLM results explored for a plan prompt and for a synthesis prompt
ConcPlanResponses ==
    { PlanRaw("nonjson", <<>>),
      PlanRaw("json", <<Action("web_fetch", "u1", <<>>, "", "", 0)>>),
      PlanRaw("json", <<Action("n8n", "", <<>>, "deploy", "d", 0),
                        Action("retrieval", "", <<>>, "", "", 0)>>) }

ConcResponses(fn) ==
    IF fn \in {"knowledge_plan", "automation_plan", "integration_plan"} THEN ConcPlanResponses
    ELSE IF fn = "knowledge_answer_stream" THEN {PlanRaw("text", <<>>), PlanRaw("raise", <<>>)}
    ELSE {PlanRaw(kd, <<>>) : kd \in SynthKinds}

\* the stage function called at position pc
ConcFn(pc0) == IF pc0 = "start" THEN "router_node" ELSE pc0

\* a stage that awaits the LLM, resumed with the result resp
StageLLM(fn, s, resp) ==
    CASE fn = "knowledge_plan"     -> knowledge_plan(s, resp)
      [] fn = "automation_plan"    -> automation_plan(s, resp)
      [] fn = "integration_plan"   -> integration_plan(s, resp)
      [] fn = "knowledge_answer"   -> knowledge_answer(s, resp.kind)
      [] fn = "automation_report"  -> automation_report(s, resp.kind)
      [] fn = "integration_report" -> integration_report(s, resp.kind)
      [] OTHER -> IF resp.kind = "raise" THEN Raise(Ctx(s), "LLMError") ELSE Ok(Ctx(s))

\* a synchronous stage: the results it may return
StageSync(fn, s, reg) ==
    CASE fn = "router_node"          -> {router_node(s, FALSE, "raise")}
      [] fn = "knowledge_toolcall"   -> knowledge_toolcall(s, reg)
      [] fn = "automation_toolcall"  -> automation_toolcall(s, reg)
      [] fn = "integration_toolcall" -> integration_toolcall(s, reg)
      [] fn = "knowledge_retrieve"   -> {knowledge_retrieve(s, out) : out \in RetrieveOutcomes}
      [] fn = "automation_node"      -> {automation_node(s, reg, o) : o \in N8nOutcomes}
      [] fn = "integration_node"     -> {integration_node(s)}
      [] OTHER                       -> {fallback_node(s)}

\* run() / stream() after stage fn returned r: the state and the next position
ConcAfter(e, adv, fn, r) ==
    LET exc == IF r.exc # "" THEN r.exc
               ELSE IF e = "stream" /\ fn = "automation_toolcall" THEN "TypeError" ELSE ""
        nxt == IF e = "stream" THEN StreamNext(fn, r.st.route, adv)
               ELSE LinearNext(fn, r.st.route, adv)
    IN  IF exc # "" THEN [st |-> IF e = "stream" THEN r.st ELSE RunExcept(r.st, exc), pc |-> END]
        ELSE [st |-> r.st, pc |-> nxt]

\* the state of every invocation made to share the Steps list of invocation i
ConcWrite_Shared(rs, i, n) ==
    [j \in DOMAIN rs |->
        IF j = i THEN [rs[j] EXCEPT !.st = n.st, !.pc = n.pc, !.awaiting = FALSE]
        ELSE [rs[j] EXCEPT !.st.steps = n.st.steps]]

\* `state = await self._stage(state)`: invocation i rebinds its own local
ConcWrite(rs, i, n) ==
    [rs EXCEPT ![i] = [@ EXCEPT !.st = n.st, !.pc = n.pc, !.awaiting = FALSE]]

\* cache.generate_key("llm_generate", provider, model, prompt): the prompt is
\* built from the stage, the message and what the state holds
CacheKey(fn, s) ==
    [fn |-> fn, message |-> s.message, docs |-> ArtGet(s.artifacts, "docs"),
     fetched |-> ArtGet(s.artifacts, "web_fetch"), actions |-> s.actions]

\* the results llm.generate may hand back: the cached one on a hit
\* (llm_service.py lines 71-77; generate_stream does not consult the cache)
ConcLLM(fn, s) ==
    LET hits == {c \in cache : c.key = CacheKey(fn, s)} IN
    IF fn # "knowledge_answer_stream" /\ hits # {}
    THEN {c.resp : c \in hits} ELSE ConcResponses(fn)

\* "Cache the successful result" (llm_service.py lines 124-126)
CachePut(fn, s, resp) ==
    IF fn = "knowledge_answer_stream" \/ resp.kind \in {"raise", "error", "nochoices"}
       \/ \E c \in cache : c.key = CacheKey(fn, s)
    THEN cache
    ELSE cache \cup {[key |-> CacheKey(fn, s), resp |-> resp]}

ConcEntries == {"run", "stream"}

ConcPayloads ==
    { Input("knowledge", {"explain"}, DefaultK, FALSE),
      Input("automation", {"deploy"}, DefaultK, FALSE) }

ConcInit ==
    /\ entry = "run"
    /\ strategy = "linear"
    /\ advanced \in BOOLEAN
    /\ useLLM = FALSE
    /\ registry = BuiltinTools
    /\ st = InitialState(Input("", {}, DefaultK, FALSE))
    /\ pc = END
    /\ trace = <<>>
    /\ stagelog = <<>>
    /\ events = <<>>
    /\ inst = <<>>
    /\ calls = <<>>
    /\ llmlog = <<>>
    /\ full_text = <<>>
    /\ returned = ""
    /\ contexts = <<>>
    /\ \E e1 \in ConcEntries, e2 \in ConcEntries, p2 \in ConcPayloads :
          runs = << [entry |-> e1, input |-> Input("knowledge", {"explain"}, DefaultK, FALSE),
                     st |-> InitialState(Input("knowledge", {"explain"}, DefaultK, FALSE)),
                     pc |-> "start", awaiting |-> FALSE, overlapped |-> FALSE],
                    [entry |-> e2, input |-> p2, st |-> InitialState(p2),
                     pc |-> "start", awaiting |-> FALSE, overlapped |-> FALSE] >>
    /\ cache = {}

\* invocation i runs a synchronous stage to its end
ConcSync(i) ==
    /\ runs[i].pc # END /\ ConcFn(runs[i].pc) \notin LLMFns
    /\ \E r \in StageSync(ConcFn(runs[i].pc), runs[i].st, registry) :
          runs' = ConcWrite(runs, i, ConcAfter(runs[i].entry, advanced, ConcFn(runs[i].pc), r))
    /\ UNCHANGED <<env, st, pc, trace, stagelog, events, inst, calls, llmlog, full_text,
                   returned, contexts, cache>>

\* invocation i reaches `await self.llm.generate(prompt)` and is suspended;
\* overlapped notes that it did so while another invocation was suspended
ConcAwait(i) ==
    /\ runs[i].pc \in LLMFns /\ ~runs[i].awaiting
    /\ runs' = [runs EXCEPT ![i].awaiting = TRUE,
                            ![i].overlapped = @ \/ \E j \in DOMAIN runs : j # i /\ runs[j].awaiting]
    /\ UNCHANGED <<env, st, pc, trace, stagelog, events, inst, calls, llmlog, full_text,
                   returned, contexts, cache>>

\* the LLM call of invocation i returns and the stage runs to its end
ConcResume(i) ==
    /\ runs[i].pc \in LLMFns /\ runs[i].awaiting
    /\ \E resp \in ConcLLM(runs[i].pc, runs[i].st) :
          /\ runs' = ConcWrite(runs, i, ConcAfter(runs[i].entry, advanced, runs[i].pc,
                                                  StageLLM(runs[i].pc, runs[i].st, resp)))
          /\ cache' = CachePut(runs[i].pc, runs[i].st, resp)
    /\ UNCHANGED <<env, st, pc, trace, stagelog, events, inst, calls, llmlog, full_text,
                   returned, contexts>>

ConcNext == \E i \in {1, 2} : ConcSync(i) \/ ConcAwait(i) \/ ConcResume(i)

ConcSpec == ConcInit /\ [][ConcNext]_vars

\* ------------------------------------------------------------- properties
Kinds(k) == {i \in 1..Len(events) : events[i].ev.kind = k}

Raised == \E i \in 1..Len(stagelog) : stagelog[i].exc # ""

RECURSIVE Concat(_)
Concat(ss) == IF ss = <<>> THEN <<>> ELSE Head(ss) \o Concat(Tail(ss))

AppendedSteps == Concat([i \in 1..Len(stagelog) |-> stagelog[i].appended])

PlanFns == {"knowledge_plan", "automation_plan", "integration_plan"}
ToolcallFns == {"knowledge_toolcall", "automation_toolcall", "integration_toolcall"}

C2_RunReturnsState ==
    (entry = "run" /\ pc = END) =>
        /\ returned = "state"
        /\ st.steps = AppendedSteps
        /\ (Raised => st.errors # <<>> /\ Last(st.errors) = Last(stagelog).exc)
        /\ (~Raised => st.errors = <<>>)

C2_Witness ==
    /\ entry = "run" /\ pc = END /\ Raised
    /\ Last(trace) \in ToolcallFns
    /\ Len(st.steps) >= 3

\* C3: a preferred_agent among knowledge, automation, integration is the route,
\* whatever the message and whatever the LLM classification.
C3_PreferredWins ==
    (pc = END /\ st.preferred_agent \in PreferredRoutes) => st.route = st.preferred_agent

C3_Witness ==
    /\ pc = END /\ useLLM
    /\ st.preferred_agent = "integration"
    /\ "explain" \in st.message
    /\ st.route = "integration"

\* C4: the stored plan, the tool classes a toolcall stage instantiates and the
\* tools it runs only ever carry a type among retrieval, web_fetch, n8n.
C4_OnlyAllowedTypes ==
    /\ \A i \in 1..Len(st.plan) : st.plan[i].type \in {"retrieval", "web_fetch", "n8n"}
    /\ \A i \in 1..Len(inst) : inst[i] \in {"retrieval", "web_fetch", "n8n"}
    /\ \A i \in 1..Len(calls) : calls[i].tool \in {"retrieval", "web_fetch", "n8n"}

\* an LLM plan that was JSON but rejected, run against a registry holding "shell"
C4_Witness ==
    /\ "shell" \in registry
    /\ \E i \in 1..Len(stagelog) :
          /\ stagelog[i].fn \in PlanFns
          /\ stagelog[i].appended # <<>>
          /\ stagelog[i].appended[1].detail = "invalid"
          /\ Last(llmlog) = "json_badtype"
    /\ Last(trace) \in ToolcallFns
    /\ inst # <<>>

PlannerJustRan == trace # <<>> /\ Last(trace) \in PlanFns /\ Last(stagelog).exc = ""

InvalidPlanText == llmlog # <<>> /\ Last(llmlog) \in {"nonjson", "schema", "json_badtype"}

\* the deterministic single-action fallback the claim names for route r
C5_Fallback(r, k) ==
    IF r = "knowledge"
    THEN <<[type |-> "retrieval", url |-> "", urls |-> <<>>, action |-> "", data |-> "", k |-> k]>>
    ELSE IF r = "automation"
    THEN <<[type |-> "n8n", url |-> "", urls |-> <<>>, action |-> "noop", data |-> "", k |-> 0]>>
    ELSE <<[type |-> "web_fetch", url |-> "https://example.com", urls |-> <<>>, action |-> "", data |-> "", k |-> 0]>>

C5_RoutePlanName(r) ==
    IF r = "knowledge" THEN "knowledge_plan"
    ELSE IF r = "automation" THEN "automation_plan" ELSE "integration_plan"

\* C5 as stated: on plan text that is not JSON or not a Plan, the planner of
\* route R stores R's fallback plan and appends Step "{R}_plan" / "invalid".
C5_FallbackNamedRoutePlan ==
    (PlannerJustRan /\ InvalidPlanText) =>
        /\ st.hasPlan /\ st.plan = C5_Fallback(st.route, st.k)
        /\ Last(st.steps).name = C5_RoutePlanName(st.route)
        /\ Last(st.steps).detail = "invalid"

\* C5 amended: the same, the Step being named "plan" on the knowledge route
\* and "{R}_plan" on the automation and integration routes.
C5_FallbackOnInvalid ==
    (PlannerJustRan /\ InvalidPlanText) =>
        /\ st.hasPlan /\ st.plan = C5_Fallback(st.route, st.k)
        /\ Last(st.steps).name =
              (IF st.route = "knowledge" THEN "plan" ELSE C5_RoutePlanName(st.route))
        /\ Last(st.steps).detail = "invalid"
        /\ Last(stagelog).appended = <<Last(st.steps)>>

C5_Witness ==
    /\ PlannerJustRan /\ InvalidPlanText
    /\ st.route = "knowledge" /\ st.k = 2
    /\ Last(llmlog) = "nonjson"

C6_ToolcallStep ==
    pc \in ToolcallFns =>
        LET types   == [i \in 1..Len(st.plan) |-> st.plan[i].type]
            log     == Last(stagelog')
            newInst == SubSeq(inst', Len(inst) + 1, Len(inst'))
            unknown == SelectSeq(types, LAMBDA t : t \notin registry)
            notes   == SelectSeq(log.appended,
                                 LAMBDA x : x.detail \in {"unknown:retrieval", "unknown:web_fetch", "unknown:n8n"})
        IN  /\ (log.exc = "" =>
                   /\ [i \in 1..Len(notes) |-> notes[i].detail]
                        = [i \in 1..Len(unknown) |-> UnknownDetail(unknown[i])]
                   /\ newInst = SelectSeq(types, LAMBDA t : t \in registry))
            /\ (unknown = types =>
                   /\ log.exc = ""
                   /\ Len(log.appended) = Len(types)
                   /\ st'.artifacts = st.artifacts
                   /\ st'.actions = st.actions
                   /\ calls' = calls)

\* C6: a toolcall stage that returns has appended, in plan order, one
\* "unknown:<type>" Step per action whose type the registry lacks and has
\* instantiated the tool of every other action, those after an unknown one
\* included; a plan of unknown actions only raises nothing, invokes no tool
\* and leaves artifacts and actions as they were.
C6_UnknownToolSkipped == [][C6_ToolcallStep]_vars

C6_Witness ==
    /\ trace # <<>> /\ Last(trace) \in ToolcallFns /\ Last(stagelog).exc = ""
    /\ Len(st.plan) = 2
    /\ st.plan[1].type \notin registry
    /\ st.plan[2].type \in registry
    /\ Len(Last(stagelog).appended) = 2
    /\ calls # <<>>

RECURSIVE LinearFrom(_, _, _)
LinearFrom(fn, r, adv) ==
    IF fn = END THEN <<>> ELSE <<fn>> \o LinearFrom(LinearNext(fn, r, adv), r, adv)

\* C7: under the graph strategy the stages visited are, in order, those the
\* linear strategy visits for the same route and advanced flag.
C7_GraphVisitsLinearStages ==
    (strategy = "graph" /\ trace # <<>>) =>
        /\ IsPrefix(trace, LinearFrom("router_node", st.route, advanced))
        /\ (~Raised => pc = LinearNext(Last(trace), st.route, advanced))
        /\ ((pc = END /\ ~Raised) => trace = LinearFrom("router_node", st.route, advanced))

C7_Witness ==
    /\ strategy = "graph" /\ advanced /\ pc = END /\ ~Raised
    /\ st.route = "knowledge"
    /\ trace = <<"router_node", "knowledge_plan", "knowledge_toolcall", "knowledge_answer">>
    /\ st.hasResult

\* C8: every transition leaves the previous steps list as a prefix of the new one.
C8_StepsAppendOnly == [][IsPrefix(st.steps, st'.steps)]_vars

C8_Witness ==
    /\ Raised /\ pc = END
    /\ Last(trace) \in ToolcallFns
    /\ Len(Last(stagelog).appended) >= 1
    /\ Len(st.steps) >= 3

\* C9: a run in which no stage raised ends with at least as many Steps as
\* stages entered, every stage having appended at least one.
C9_StepPerStage ==
    (entry = "run" /\ pc = END /\ ~Raised) =>
        /\ Len(st.steps) >= Len(trace)
        /\ \A i \in 1..Len(stagelog) : stagelog[i].appended # <<>>

\* C10: in stream(), each stage that returned is followed by exactly one
\* `step` event and that event carries a Step the stage itself appended.
C10_StepEventOfStage ==
    entry = "stream" =>
        \A i \in 1..Len(stagelog) :
            stagelog[i].exc = "" =>
                LET E == {j \in Kinds("step") : events[j].at = i} IN
                /\ Cardinality(E) = 1
                /\ \A j \in E : \E m \in 1..Len(stagelog[i].appended) :
                       stagelog[i].appended[m] = events[j].ev.step

\* the stage acting in a step: the one just appended to trace, else the
\* streamed answer stage that is still iterating
C11_Acting == IF trace' # trace THEN Len(trace') ELSE Len(trace) + 1

C11_StageOrderStep ==
    entry = "stream" =>
        LET n   == C11_Acting
            new == SubSeq(events', Len(events) + 1, Len(events'))
        IN  /\ IsPrefix(events, events')
            /\ \A j \in 1..Len(new) : new[j].at = n
            /\ \A j \in 1..Len(events) : events[j].at <= n
            /\ ((calls' # calls \/ llmlog' # llmlog) => \A j \in 1..Len(events) : events[j].at < n)
            /\ \A i \in 1..(n - 1) : \E j \in 1..Len(events) : events[j].at = i
            /\ (events' # <<>> =>
                   /\ events'[1].at = 1
                   /\ events'[1].ev = EvStep(Step("router", RouteDetail(st'.route), NoOutput)))

\* C11: in stream() the first event is the router stage's `step` event; the
\* events a step emits all belong to the stage acting in it, every earlier
\* stage has emitted its events by then, and when that stage makes an LLM or
\* tool call every event emitted so far belongs to an earlier stage.
C11_StageOrder == [][C11_StageOrderStep]_vars

C11_Witness ==
    /\ entry = "stream" /\ pc = END /\ ~Raised
    /\ trace = <<"router_node", "knowledge_plan", "knowledge_toolcall", "knowledge_answer_stream">>
    /\ Len(calls) >= 2
    /\ Cardinality(Kinds("token")) = MaxChunks
    /\ \A i \in 1..4 : \E j \in 1..Len(events) : events[j].at = i

\* C12: a stream() on the automation, integration or fallback route in which
\* no stage function raised ends with exactly one `token` event, which
\* carries the complete result, follows every `step` event and is directly
\* followed by `done` as the final event.
C12_OneTokenThenDone ==
    (entry = "stream" /\ pc = END /\ ~Raised
        /\ st.route \in {"automation", "integration", "fallback"}) =>
        /\ Cardinality(Kinds("token")) = 1
        /\ \A i \in Kinds("token") :
               /\ st.hasResult /\ events[i].ev.text = st.result
               /\ \A j \in Kinds("step") : j < i
               /\ i = Len(events) - 1
        /\ Len(events) \in Kinds("done")

\* an advanced linear run on the automation or integration route that has
\* returned, no stage having raised, its planner having accepted the LLM's plan
C13_PlannedRun ==
    /\ entry = "run" /\ strategy = "linear" /\ advanced
    /\ pc = END /\ ~Raised
    /\ st.route \in {"automation", "integration"}
    /\ Len(stagelog) >= 2 /\ stagelog[2].appended # <<>>
    /\ stagelog[2].appended[1].detail = "validated"

C13_StepNames == [i \in 1..Len(st.steps) |-> st.steps[i].name]

C13_N8nPlanned == SelectSeq(st.plan, LAMBDA a : a.type = "n8n")

\* router, {R}_plan, the toolcall Steps, {R}_report, and the report text as result
C13_StepsAndResult ==
    LET n == Len(st.steps) IN
    /\ n >= 3
    /\ st.steps[1].name = "router"
    /\ st.steps[2].name = (IF st.route = "automation" THEN "automation_plan" ELSE "integration_plan")
    /\ st.steps[n].name = (IF st.route = "automation" THEN "automation_report" ELSE "integration_report")
    /\ \A i \in 3..(n - 1) : st.steps[i].name = "toolcall"
    /\ n - 3 <= Len(st.plan)
    /\ st.hasResult
    /\ st.result = (IF Last(llmlog) = "text" THEN <<"o", "k">> ELSE <<>>)

C14_CitationPerDoc ==
    (entry = "run" /\ pc = END /\ ~Raised /\ st.route = "knowledge") =>
        LET docs == ArtGet(st.artifacts, "docs") IN
        /\ Len(st.citations) = Len(docs)
        /\ \A i \in 1..Len(st.citations) :
               /\ st.citations[i].metadata = [source |-> docs[i].source, id |-> docs[i].id, n |-> docs[i].n]
               /\ st.citations[i].source \in {docs[i].source, docs[i].id, DocName(i)}
               /\ st.citations[i].source # ""

\* C15: the snippets of the answer prompt are numbered 1, 2, 3, ... with no
\* gap and no repeat: the docs first, as [1]..[n] in append order, then the
\* fetched pages in append order, whatever docs and fetched pages (pages
\* with empty text included) artifacts holds.
C15_ContiguousNumbers ==
    (trace # <<>> /\ Last(trace) \in {"knowledge_answer", "knowledge_answer_stream"}) =>
        LET docs == ArtGet(st.artifacts, "docs") IN
        /\ Len(contexts) >= Len(docs)
        /\ \A i \in 1..Len(contexts) : contexts[i].num = i
        /\ \A i \in 1..Len(docs) : contexts[i].text = docs[i].text

\* whether one of the listed terms occurs in the lower-cased message
C16_Occurs(msg, terms) == \E w \in terms : w \in msg

\* C16: with no preferred_agent and LLM routing disabled the route is
\* determined by the message alone, first match winning: knowledge if a
\* knowledge term occurs, else automation if an automation term occurs, else
\* integration if an integration term occurs, else fallback.
C16_HeuristicRoute ==
    (pc = END /\ st.preferred_agent = "" /\ ~useLLM) =>
        LET kn == C16_Occurs(st.message, {"what is", "explain", "docs", "documentation",
                                          "how do", "how to", "agent", "rag"})
            au == C16_Occurs(st.message, {"run", "execute", "trigger", "schedule", "deploy",
                                          "start job", "automate"})
            in == C16_Occurs(st.message, {"n8n", "webhook", "integrate", "api call", "send to"})
        IN  /\ st.route \in {"knowledge", "automation", "integration", "fallback"}
            /\ (kn => (st.route = "knowledge"))
            /\ ((~kn /\ au) => (st.route = "automation"))
            /\ ((~kn /\ ~au /\ in) => (st.route = "integration"))
            /\ ((~kn /\ ~au /\ ~in) => (st.route = "fallback"))
            /\ Last(st.steps) = Step("router", RouteDetail(st.route), NoOutput)

C16_Witness ==
    /\ pc = END /\ st.preferred_agent = "" /\ ~useLLM
    /\ st.message = {"explain", "deploy", "webhook"}
    /\ st.route = "knowledge"

SynthesisOf(fn) ==
    CASE fn = "knowledge_toolcall"   -> "knowledge_answer"
      [] fn = "automation_toolcall"  -> "automation_report"
      [] fn = "integration_toolcall" -> "integration_report"
      [] OTHER -> END

\* C17: whatever the tools of the planned actions do (error result or raised
\* exception), a toolcall stage of run() completes without raising and the
\* run goes on to the route's synthesis stage.
C17_ToolFailureContained ==
    (entry = "run" /\ trace # <<>> /\ Last(trace) \in ToolcallFns) =>
        /\ Last(stagelog).exc = ""
        /\ st.errors = <<>>
        /\ pc = SynthesisOf(Last(trace))

\* C18: whatever llm.generate returned for the plan prompt (an error mapping,
\* an empty choices list, text that is not JSON, JSON that is not a Plan),
\* the planner stage returns normally, state.plan holds a valid plan and the
\* stage has appended exactly one plan Step.
C18_PlannerNeverRaises ==
    (trace # <<>> /\ Last(trace) \in PlanFns /\ Last(llmlog) # "raise") =>
        /\ Last(stagelog).exc = ""
        /\ st.errors = <<>>
        /\ st.hasPlan
        /\ \A i \in 1..Len(st.plan) : st.plan[i].type \in {"retrieval", "web_fetch", "n8n"}
        /\ Len(Last(stagelog).appended) = 1
        /\ \A i \in 1..Len(Last(stagelog).appended) :
               /\ Last(stagelog).appended[i].name \in {"plan", "automation_plan", "integration_plan"}
               /\ Last(stagelog).appended[i].detail \in {"validated", "invalid"}

\* the action subset the claim gives for route r
C19_Subset(r) ==
    IF r = "knowledge" THEN {"retrieval", "web_fetch"} ELSE {"n8n", "web_fetch"}

\* C19: after the planner of route R has returned, every action of the
\* stored plan has a type in R's subset; a plan naming another type was
\* replaced by R's fallback and its Step says "invalid".
C19_RouteSubset ==
    PlannerJustRan =>
        /\ \A i \in 1..Len(st.plan) : st.plan[i].type \in C19_Subset(st.route)
        /\ (Last(st.steps).detail = "validated" \/ st.plan = C5_Fallback(st.route, st.k))

\* C20: a toolcall stage that returned has appended exactly one Step per
\* action of the plan, whatever the actions: of an unregistered tool, of a
\* type the route does not handle, or a web_fetch without url.
C20_StepPerAction ==
    (trace # <<>> /\ Last(trace) \in ToolcallFns /\ Last(stagelog).exc = "") =>
        /\ Len(Last(stagelog).appended) = Len(st.plan)
        /\ \A i \in 1..Len(Last(stagelog).appended) : Last(stagelog).appended[i].name = "toolcall"

\* the Steps a toolcall stage appended for web_fetch actions
C21_FetchSteps == SelectSeq(Last(stagelog).appended, LAMBDA x : x.detail = "web_fetch")

RECURSIVE C21_Sum(_)
C21_Sum(xs) == IF xs = <<>> THEN 0 ELSE Head(xs).output.n + C21_Sum(Tail(xs))

\* C21: a toolcall stage that returned has appended to artifacts["web_fetch"]
\* one record per URL whose fetch carried no error and none for a failed
\* fetch: as many records as its web_fetch Steps report successful (the ok
\* flag on the automation and integration routes, the count on the
\* knowledge route).
C21_RecordOnlyOnSuccess ==
    (trace # <<>> /\ Last(trace) \in ToolcallFns /\ Last(stagelog).exc = "") =>
        Len(ArtGet(st.artifacts, "web_fetch")) = C21_Sum(C21_FetchSteps)

\* the plan the toolcall stage fn iterated (the stage leaves plan and k alone)
C22_Plan(fn) ==
    Revalidate(st, CASE fn = "knowledge_toolcall"  -> KnowledgeFallback(st)
                     [] fn = "automation_toolcall" -> AutomationFallback
                     [] OTHER                      -> IntegrationFallback)

\* the tool invocations action a of the plan makes in stage fn, in order
C22_CallsOf(fn, a) ==
    IF a.type \notin registry THEN <<>>
    ELSE IF fn = "knowledge_toolcall" THEN
        (IF a.type = "retrieval" THEN <<"retrieval">>
         ELSE IF a.type = "web_fetch"
              THEN (IF a.urls # <<>> THEN a.urls ELSE IF a.url # "" THEN <<a.url>> ELSE <<>>)
              ELSE <<>>)
    ELSE (IF a.type = "n8n" THEN <<N8nAction(a)>>
          ELSE IF a.type = "web_fetch" /\ a.url # "" THEN <<a.url>>
          ELSE <<>>)

\* the Step detail action a of the plan leaves in stage fn (none: <<>>)
C22_StepOf(fn, a) ==
    IF a.type \notin registry THEN <<UnknownDetail(a.type)>>
    ELSE IF fn = "knowledge_toolcall" THEN
        (IF a.type = "n8n" THEN <<"n8n (skipped in knowledge path)">> ELSE <<a.type>>)
    ELSE IF a.type = "n8n" THEN <<"n8n">>
    ELSE IF a.type = "web_fetch" /\ (fn = "integration_toolcall" \/ a.url # "") THEN <<"web_fetch">>
    ELSE <<>>

RECURSIVE C22_IsSubseq(_, _)
C22_IsSubseq(xs, ys) ==
    IF xs = <<>> THEN TRUE
    ELSE IF ys = <<>> THEN FALSE
    ELSE IF Head(xs) = Head(ys) THEN C22_IsSubseq(Tail(xs), Tail(ys))
    ELSE C22_IsSubseq(xs, Tail(ys))

\* what the invocation log records of a call: the URL, the n8n action, or the tool
C22_CallKey(c) == IF c.tool = "retrieval" THEN "retrieval" ELSE c.arg

\* C22: a toolcall stage invokes the tools one after the other in the order
\* of plan.actions: the invocation log of the stage is the concatenation, in
\* plan order, of each action's invocations (a prefix of it when a tool
\* raised), the per-action Steps are in plan order, the n8n records of
\* actions are in the order of the n8n invocations and the web_fetch records
\* of artifacts follow the order of the fetches.
C22_PlanOrder ==
    (trace # <<>> /\ Last(trace) \in ToolcallFns) =>
        LET fn     == Last(trace)
            plan   == C22_Plan(fn)
            log    == Last(stagelog)
            expC   == Concat([i \in 1..Len(plan) |-> C22_CallsOf(fn, plan[i])])
            expS   == Concat([i \in 1..Len(plan) |-> C22_StepOf(fn, plan[i])])
            gotC   == [i \in 1..Len(calls) |-> C22_CallKey(calls[i])]
            gotS   == [i \in 1..Len(log.appended) |-> log.appended[i].detail]
            n8n    == SelectSeq(calls, LAMBDA c : c.tool = "n8n")
            fetch  == SelectSeq(calls, LAMBDA c : c.tool = "web_fetch")
            pages  == ArtGet(st.artifacts, "web_fetch")
        IN  /\ IsPrefix(gotC, expC)
            /\ IsPrefix(gotS, expS)
            /\ (log.exc = "" => (gotC = expC /\ gotS = expS))
            /\ [i \in 1..Len(st.actions) |-> st.actions[i].action]
                   = [i \in 1..Len(n8n) |-> n8n[i].arg]
            /\ C22_IsSubseq([i \in 1..Len(pages) |-> pages[i].url],
                            [i \in 1..Len(fetch) |-> fetch[i].arg])

\* a stage that invoked two tools and returned
C22_Witness ==
    /\ trace # <<>> /\ Last(trace) \in ToolcallFns
    /\ Last(stagelog).exc = ""
    /\ Len(calls) >= 2
    /\ calls[1] # calls[2]

\* the action types whose tool the toolcall stage fn runs
C23_Accepted(fn) ==
    IF fn = "knowledge_toolcall" THEN {"retrieval", "web_fetch"} ELSE {"n8n", "web_fetch"}

\* C23: a toolcall stage invokes a tool's run only for the action types its
\* route accepts, whatever the plan holds: the knowledge stage never runs the
\* n8n tool and leaves actions alone, the automation and integration stages
\* never run the retrieval tool and leave artifacts["docs"] alone.
C23_AcceptedSubset ==
    (trace # <<>> /\ Last(trace) \in ToolcallFns) =>
        /\ \A i \in 1..Len(calls) : calls[i].tool \in C23_Accepted(Last(trace))
        /\ (Last(trace) = "knowledge_toolcall" => st.actions = <<>>)
        /\ (Last(trace) # "knowledge_toolcall" => ArtGet(st.artifacts, "docs") = <<>>)

\* the knowledge stage met an n8n action whose tool is registered and went on
\* to run the retrieval after it
C23_Witness ==
    /\ trace # <<>> /\ Last(trace) = "knowledge_toolcall"
    /\ "n8n" \in registry
    /\ Len(st.plan) = 2 /\ st.plan[1].type = "n8n" /\ st.plan[2].type = "retrieval"
    /\ Len(calls) = 1
    /\ Last(stagelog).exc = ""

\* the n8n actions of the plan the stage iterated
C24_N8nActions == SelectSeq(C22_Plan(Last(trace)), LAMBDA a : a.type = "n8n")

\* record i of actions is the one n8n action p leaves: the action name or
\* "noop", the tool run with that name and the data or the message, and a
\* raised exception wrapped as {error, action}
C24_RecordOf(i, p) ==
    LET name == IF p.action = "" THEN "noop" ELSE p.action
        data == IF p.data = "" THEN "message" ELSE p.data
        n8n  == SelectSeq(calls, LAMBDA c : c.tool = "n8n")
        rec  == st.actions[i]
    IN  /\ rec.tool = "n8n" /\ rec.action = name
        /\ n8n[i].arg = name /\ n8n[i].data = data
        /\ (rec.output.raised => (rec.output.error # "" /\ rec.output.action = name))

C24_Stage == trace # <<>> /\ Last(trace) \in {"automation_toolcall", "integration_toolcall"}

\* C24 as stated: every n8n action of the plan leaves exactly one record in
\* actions, with the defaults applied and a raised exception wrapped.
C24_RecordPerN8nAction ==
    (C24_Stage /\ Last(stagelog).exc = "") =>
        /\ Len(st.actions) = Len(C24_N8nActions)
        /\ \A i \in 1..Len(st.actions) : C24_RecordOf(i, C24_N8nActions[i])

\* C24, amended: when the Tool Registry holds the n8n tool, every n8n action
\* the automation or integration toolcall stage reaches leaves exactly one
\* record {tool: "n8n", action, output} in actions; a run that raises is
\* not propagated (the stage raises only for a fetch) and its output is
\* {error, action}; a missing action is "noop", missing data the message.
C24_RecordPerRegisteredN8n ==
    (C24_Stage /\ "n8n" \in registry) =>
        /\ Len(st.actions) <= Len(C24_N8nActions)
        /\ (Last(stagelog).exc = "" => Len(st.actions) = Len(C24_N8nActions))
        /\ \A i \in 1..Len(st.actions) : C24_RecordOf(i, C24_N8nActions[i])
        /\ Last(stagelog).exc \in {"", "FetchError"}

\* an n8n action without arguments whose run raised, in a stage that returned
C24_Witness ==
    /\ C24_Stage /\ "n8n" \in registry
    /\ Last(stagelog).exc = ""
    /\ \E i \in 1..Len(st.actions) :
          /\ st.actions[i].output.raised
          /\ st.actions[i].action = "noop"
          /\ C24_N8nActions[i].action = ""

\* every LLM call returned a usable response, no tool run raised or
\* reported an error
C25_AllRespond ==
    /\ ~Raised
    /\ \A i \in 1..Len(llmlog) : llmlog[i] \in {"json", "text"}
    /\ \A i \in 1..Len(AppendedSteps) :
          AppendedSteps[i].output \notin {OkOutput(FALSE), ErrorOutput}
    /\ \A i \in 1..Len(st.actions) : st.actions[i].output.error = ""

\* the stages the linear run() executes for route r, the knowledge answer
\* stage replaced by its streaming variant
C25_LinearStages(r, adv) ==
    LET lin == LinearFrom("router_node", r, adv) IN
    [i \in 1..Len(lin) |-> IF lin[i] = "knowledge_answer" THEN "knowledge_answer_stream" ELSE lin[i]]

\* C25: a finished stream() in which the LLM and the tools all responded
\* without error has executed the stages of the linear run() for its route
\* and advanced flag (the answer stage in its streaming variant), has
\* emitted no `error` event and has `done` as its last event.
C25_StreamAsLinearRun ==
    (entry = "stream" /\ pc = END /\ C25_AllRespond) =>
        /\ trace = C25_LinearStages(st.route, advanced)
        /\ Kinds("error") = {}
        /\ events # <<>> /\ Len(events) \in Kinds("done")

\* the texts of the `token` events, in emission order
C26_Tokens ==
    LET toks == SelectSeq(events, LAMBDA e : e.ev.kind = "token") IN
    [i \in 1..Len(toks) |-> toks[i].ev.text]

\* C26: while the knowledge answer streams, the `token` events emitted carry
\* the chunks the LLM produced, one event per chunk in production order;
\* when the stream is exhausted exactly one `step` event named answer
\* follows them, its length the total length of the forwarded chunks, then
\* `done` as the last event, and no `token` event comes after the step.
C26_TokensThenAnswer ==
    /\ (entry = "stream" /\ st.route = "knowledge"
           /\ (pc = "knowledge_answer_stream" \/ (trace # <<>> /\ Last(trace) = "knowledge_answer_stream")))
          => Concat(C26_Tokens) = full_text
    /\ (trace # <<>> /\ Last(trace) = "knowledge_answer_stream" /\ Last(stagelog).exc = "") =>
          LET n       == Len(events)
              answers == {i \in Kinds("step") : events[i].ev.step.name = "answer"}
          IN  /\ n >= 2
              /\ answers = {n - 1}
              /\ events[n - 1].ev.step.output = LenOutput(Len(Concat(C26_Tokens)))
              /\ Kinds("done") = {n}
              /\ \A i \in Kinds("token") : i < n - 1
              /\ \A i \in Kinds("token") : events[i].ev.text \in Chunks

\* a stream that forwarded two different chunks and then ended
C26_Witness ==
    /\ trace # <<>> /\ Last(trace) = "knowledge_answer_stream" /\ Last(stagelog).exc = ""
    /\ Len(C26_Tokens) = MaxChunks
    /\ C26_Tokens[1] # C26_Tokens[2]

\* the intent the LLM's response names, lower-cased ("none": it names none)
C27_Classified(resp) ==
    CASE resp \in Routes \cup {"other"} -> resp
      [] resp = "Knowledge"             -> "knowledge"
      [] OTHER                          -> "none"

\* C27: with LLM routing enabled and no valid preferred_agent, the router
\* returns the intent the LLM classified when it is one of knowledge,
\* automation, integration, fallback, and the heuristic route otherwise (the
\* call failed, the text did not parse, the response is malformed or names
\* another intent); it does not raise and appends exactly one router Step
\* recording the route.
C27_LLMRoute ==
    (trace = <<"router_node">> /\ useLLM /\ st.preferred_agent \notin PreferredRoutes
        /\ llmlog # <<>>) =>
        LET intent == C27_Classified(llmlog[1]) IN
        /\ st.route = (IF intent \in Routes THEN intent ELSE Heuristic(st.message))
        /\ stagelog[1].exc = ""
        /\ stagelog[1].appended = <<Step("router", RouteDetail(st.route), NoOutput)>>

\* every artifacts sequence before a step is a prefix of itself after it
C28_PrefixStep ==
    \A key \in {"docs", "web_fetch"} :
        IsPrefix(ArtGet(st.artifacts, key), ArtGet(st'.artifacts, key))

\* C28: within a run artifacts["docs"] and artifacts["web_fetch"] are
\* append-only: across every stage, in simple and advanced mode and also
\* when the payload supplied initial artifacts, the value before the stage is
\* a prefix of the value after it (a missing key counting as empty).
C28_AppendOnly == [][C28_PrefixStep]_vars

\* the stages that end a route
C29_TerminalFns ==
    {"knowledge_answer", "automation_report", "automation_node",
     "integration_report", "integration_node", "fallback_node"}

C29_Terminals == {i \in 1..Len(trace) : trace[i] \in C29_TerminalFns}

\* C29: in run(), under either strategy, one route is chosen and at most one
\* terminal stage executes; result is set when, and only when, that stage
\* has returned, and nothing executes after it; a run that completed without
\* error chose a route among the four, executed exactly one terminal stage,
\* as its last of at most four stages, and holds the result it wrote.
C29_OneTerminalStage ==
    entry = "run" =>
        /\ Cardinality(C29_Terminals) <= 1
        /\ \A i \in C29_Terminals : i = Len(trace) /\ pc = END
        /\ (st.hasResult <=> (C29_Terminals # {} /\ Last(stagelog).exc = ""))
        /\ (~st.hasResult => (st.result = <<>>))
        /\ Cardinality({i \in 1..Len(st.steps) : st.steps[i].name = "router"}) <= 1
        /\ ((pc = END /\ ~Raised) =>
               (/\ Len(trace) <= 4
                /\ Cardinality(C29_Terminals) = 1
                /\ st.hasResult
                /\ st.route \in Routes
                /\ st.steps[1] = Step("router", RouteDetail(st.route), NoOutput)))

\* an advanced run of four stages that completed without error
C29_Witness ==
    /\ entry = "run" /\ advanced /\ pc = END /\ ~Raised
    /\ Len(trace) = 4
    /\ st.hasResult /\ st.result = AnswerText

\* the final states an invocation reaches when it executes alone, from state
\* s at position pc0, whatever the LLM and the tools return
RECURSIVE C30_SoloFinals(_, _, _, _, _)
C30_SoloFinals(e, adv, reg, s, pc0) ==
    IF pc0 = END THEN {s}
    ELSE LET fn == ConcFn(pc0)
             rs == IF fn \in LLMFns THEN {StageLLM(fn, s, resp) : resp \in ConcResponses(fn)}
                   ELSE StageSync(fn, s, reg)
         IN  UNION { LET n == ConcAfter(e, adv, fn, r) IN C30_SoloFinals(e, adv, reg, n.st, n.pc)
                     : r \in rs }

\* C30: of two invocations interleaved at their awaited LLM calls, each ends
\* in a state it also reaches when executed alone on its payload, holding
\* only Steps it appended itself, and the Tool Registry is the one the
\* process started with.
C30_RunsIndependent ==
    /\ \A i \in DOMAIN runs :
          runs[i].pc = END =>
              runs[i].st \in C30_SoloFinals(runs[i].entry, advanced, BuiltinTools,
                                            InitialState(runs[i].input), "start")
    /\ \A i \in DOMAIN runs :
          \A j \in 1..Len(runs[i].st.steps) :
              runs[i].st.steps[j].name \in
                  (IF runs[i].input.preferred_agent = "knowledge"
                   THEN {"router", "plan", "toolcall", "retrieve", "answer"}
                   ELSE {"router", "automation_plan", "toolcall", "automation_report", "automation"})
    /\ (runs # <<>> => registry = BuiltinTools)

\* both invocations finished, on different routes, each having been
\* suspended at an LLM call while the other was
C30_Witness ==
    /\ Len(runs) = 2
    /\ runs[1].overlapped /\ runs[2].overlapped
    /\ runs[1].pc = END /\ runs[2].pc = END
    /\ runs[1].st.route = "knowledge" /\ runs[2].st.route = "automation"
    /\ runs[1].st.hasResult /\ runs[2].st.hasResult
    /\ Len(runs[1].st.steps) = 4 /\ Len(runs[2].st.steps) >= 4

====
